---------------------------- MODULE Spec2Model ----------------------------
(***************************************************************************)
(* A model of decentraland-server's Model (entity gateway) and of the      *)
(* Postgres client it drives.                                              *)
(*                                                                         *)
(* JavaScript objects are ordered mappings: sequences of entries           *)
(* [key, val] with distinct keys, in insertion order (the order of         *)
(* Object.keys / Object.values).  An optional argument is a record with a  *)
(* def flag.  SQL text is a sequence of tokens; a placeholder $N is a      *)
(* token carrying N, so the numbering the text uses can be compared with   *)
(* the positions of the values array.                                      *)
(***************************************************************************)
EXTENDS Integers, Sequences, FiniteSets, TLC

(***************************************************************************)
(* Bounds of the model.                                                    *)
(***************************************************************************)
\* largest number of keys of a mapping the caller passes
MaxKeys == 2
\* the clock runs from 1 to MaxClock
MaxClock == 2
MaxStart == 2
MaxPath == 3

(***************************************************************************)
(* JavaScript values.                                                      *)
(***************************************************************************)
Undefined == [kind |-> "undef", n |-> 0]
Null == [kind |-> "null", n |-> 0]
\* the number n
Num(n) == [kind |-> "num", n |-> n]
\* a string; Str(0) is the empty string
Str(n) == [kind |-> "str", n |-> n]
\* the Date object of instant t (an object: always truthy)
Date(t) == [kind |-> "date", n |-> t]

\* the object with the properties m (an object: always truthy)
Obj(m) == [kind |-> "obj", n |-> m]

\* !v
Falsy(v) == \/ v.kind \in {"undef", "null"}
            \/ (v.kind \in {"num", "str"} /\ v.n = 0)

\* a || b
Or(a, b) == IF Falsy(a) THEN b ELSE a

(***************************************************************************)
(* JavaScript objects as ordered mappings.                                 *)
(***************************************************************************)
Entry(k, v) == [key |-> k, val |-> v]

\* Object.keys(m)
ObjectKeys(m) == [i \in 1..Len(m) |-> m[i].key]

\* Object.values(m)
ObjectValues(m) == [i \in 1..Len(m) |-> m[i].val]

KeySet(m) == {m[i].key : i \in 1..Len(m)}

Has(m, k) == k \in KeySet(m)

\* m[k]
Get(m, k) == IF Has(m, k)
             THEN m[CHOOSE i \in 1..Len(m) : m[i].key = k].val
             ELSE Undefined

\* m[k] = v : an existing key keeps its place, a new key goes last
Put(m, k, v) == IF Has(m, k)
                THEN [i \in 1..Len(m) |-> IF m[i].key = k THEN Entry(k, v) ELSE m[i]]
                ELSE Append(m, Entry(k, v))

\* Object.assign(target, source)
RECURSIVE ObjectAssign(_, _)
ObjectAssign(target, source) ==
  IF source = <<>> THEN target
  ELSE ObjectAssign(Put(target, Head(source).key, Head(source).val), Tail(source))

\* an argument that was not passed (undefined)
Missing == [def |-> FALSE, m |-> <<>>]
\* an argument that is the object m
Some(m) == [def |-> TRUE, m |-> m]

\* an OnConflict object { target, changes? }, and an omitted one
NoConflict == [def |-> FALSE, target |-> <<>>, hasChanges |-> FALSE, changes |-> <<>>]
Conflict(target, hasChanges, changes) ==
  [def |-> TRUE, target |-> target, hasChanges |-> hasChanges, changes |-> changes]

(***************************************************************************)
(* SQL text as tokens.                                                     *)
(***************************************************************************)
\* literal text
Kw(s) == [k |-> "kw", s |-> s, n |-> 0]
\* "column"
Col(c) == [k |-> "col", s |-> c, n |-> 0]
\* $n
Ph(n) == [k |-> "ph", s |-> "", n |-> n]
\* "column" = $n
Asg(c, n) == [k |-> "asg", s |-> c, n |-> n]

\* array.join(sep)
RECURSIVE Join(_, _)
Join(arr, sep) ==
  IF Len(arr) <= 1 THEN arr
  ELSE <<Head(arr), Kw(sep)>> \o Join(Tail(arr), sep)

(***************************************************************************)
(* The Postgres client: fragment builders.                                 *)
(***************************************************************************)
toColumnFields(columns) ==
  [i \in 1..Len(columns) |-> Col(ObjectKeys(columns)[i])]

\* a mutant of toAssignmentFields: the start index is ignored
toAssignmentFields_noStart(columns, start) ==
  [i \in 1..Len(columns) |-> Asg(ObjectKeys(columns)[i], (i - 1) + 1)]

\* index is 0-based in the source: the i-th key (1-based) gets $(i - 1 + start + 1)
toAssignmentFields(columns, start) ==
  [i \in 1..Len(columns) |-> Asg(ObjectKeys(columns)[i], (i - 1) + start + 1)]

\* a mutant of toValuePlaceholders: the numbering begins at start, not start + 1
toValuePlaceholders_fromStart(columns, start) ==
  [i \in 1..Len(columns) |-> Ph((i - 1) + start)]

toValuePlaceholders(columns, start) ==
  [i \in 1..Len(columns) |-> Ph((i - 1) + start + 1)]

\* a mutant of toOnConflictUpsert: the assignments are numbered from $1
toOnConflictUpsert_fromOne(onConflict, indexStart) ==
  IF Len(onConflict.target) > 0 /\ onConflict.hasChanges
  THEN <<Kw("ON CONFLICT (")>>
         \o Join([i \in 1..Len(onConflict.target) |-> Kw(onConflict.target[i])], ",")
         \o <<Kw(") DO UPDATE SET")>>
         \o Join(toAssignmentFields(onConflict.changes, 0), ",")
  ELSE <<Kw("ON CONFLICT DO NOTHING")>>

toOnConflictUpsert(onConflict, indexStart) ==
  IF Len(onConflict.target) > 0 /\ onConflict.hasChanges
  THEN <<Kw("ON CONFLICT (")>>
         \o Join([i \in 1..Len(onConflict.target) |-> Kw(onConflict.target[i])], ",")
         \o <<Kw(") DO UPDATE SET")>>
         \o Join(toAssignmentFields(onConflict.changes, indexStart), ",")
  ELSE <<Kw("ON CONFLICT DO NOTHING")>>

(***************************************************************************)
(* The Postgres client: statements.  Each yields either a throw or the     *)
(* one query (text, values) it hands to the driver.                        *)
(***************************************************************************)
Threw == [threw |-> TRUE, text |-> <<>>, values |-> <<>>]
Query(text, values) == [threw |-> FALSE, text |-> text, values |-> values]

\* the default of Postgres.insert's onConflict parameter
DefaultOnConflict == Conflict(<<>>, TRUE, <<>>)

Postgres_insert(tableName, changes, returning, onConflictArg) ==
  LET onConflict == IF onConflictArg.def THEN onConflictArg ELSE DefaultOnConflict
      values == ObjectValues(changes.m)
      conflictValues == ObjectValues(IF onConflict.hasChanges
                                     THEN onConflict.changes ELSE <<>>)
  IN IF ~changes.def THEN Threw
     ELSE Query(<<Kw("INSERT INTO"), Kw(tableName), Kw("(")>>
                  \o Join(toColumnFields(changes.m), ",")
                  \o <<Kw(") VALUES(")>>
                  \o Join(toValuePlaceholders(changes.m, 0), ",")
                  \o <<Kw(")")>>
                  \o toOnConflictUpsert(onConflict, Len(values))
                  \o <<Kw("RETURNING"), Kw(returning)>>,
                values \o conflictValues)

Postgres_update(tableName, changes, conditions) ==
  IF ~changes.def THEN Threw
  ELSE IF ~conditions.def THEN Threw
  ELSE LET changeValues == ObjectValues(changes.m)
           conditionValues == ObjectValues(conditions.m)
           whereClauses == toAssignmentFields(conditions.m, Len(changeValues))
       IN Query(<<Kw("UPDATE"), Kw(tableName), Kw("SET")>>
                  \o Join(toAssignmentFields(changes.m, 0), ",")
                  \o <<Kw("WHERE")>>
                  \o Join(whereClauses, " AND "),
                changeValues \o conditionValues)

\* a mutant of Postgres_delete: the check of conditions is left out
Postgres_delete_noGuard(tableName, conditions) ==
  Query(<<Kw("DELETE FROM"), Kw(tableName), Kw("WHERE")>>
          \o Join(toAssignmentFields(conditions.m, 0), " AND "),
        ObjectValues(conditions.m))

Postgres_delete(tableName, conditions) ==
  IF ~conditions.def THEN Threw
  ELSE Query(<<Kw("DELETE FROM"), Kw(tableName), Kw("WHERE")>>
               \o Join(toAssignmentFields(conditions.m, 0), " AND "),
             ObjectValues(conditions.m))

\* one `"column" DIRECTION` per key of the order object, in key order; the
\* array is interpolated into the text, which joins it with commas
RECURSIVE getOrderValues(_)
getOrderValues(order) ==
  IF order = <<>> THEN <<>>
  ELSE <<Col(Head(order).key), Kw(Head(order).val)>>
         \o (IF Len(order) > 1 THEN <<Kw(",")>> ELSE <<>>)
         \o getOrderValues(Tail(order))

\* _query: absent (or null) conditions give no WHERE and no values, absent
\* orderBy no ORDER BY; empty pieces of the text leave no token
Postgres_query(method, table, conditions, orderBy, extra) ==
  LET values == IF conditions.def THEN ObjectValues(conditions.m) ELSE <<>>
      where == IF conditions.def
               THEN <<Kw("WHERE")>>
                      \o Join(toAssignmentFields(conditions.m, 0), " AND ")
               ELSE <<>>
      order == IF orderBy.def
               THEN <<Kw("ORDER BY")>> \o getOrderValues(orderBy.m)
               ELSE <<>>
  IN Query(<<Kw(method), Kw("FROM"), Kw(table)>> \o where \o order
             \o (IF extra = "" THEN <<>> ELSE <<Kw(extra)>>),
           values)

Postgres_count(table, conditions, extra) ==
  Postgres_query("SELECT COUNT(*) as count", table, conditions, Missing, extra)

Postgres_select(table, conditions, orderBy, extra) ==
  Postgres_query("SELECT *", table, conditions, orderBy, extra)

Postgres_selectOne(table, conditions, orderBy) ==
  Postgres_query("SELECT *", table, conditions, orderBy, "LIMIT 1")

\* parseInt(digits, 10) of a string of decimal digits
RECURSIVE parseInt(_)
parseInt(digits) ==
  IF digits = <<>> THEN 0
  ELSE 10 * parseInt(SubSeq(digits, 1, Len(digits) - 1)) + digits[Len(digits)]


(***************************************************************************)
(* The entity descriptor (static members of the Model class).              *)
(***************************************************************************)
tableName == "users"
primaryKey == "id"

(***************************************************************************)
(* State.                                                                  *)
(***************************************************************************)
VARIABLES
  withTimestamps,  \* the entity's timestamp flag
  clock,           \* the current instant: what new Date() reads
  op,              \* the Model operation of the current (or last) call
  args,            \* the arguments of that call as they were on entry
  callerRow,       \* the row object the caller passed, as it is now
  callerConflict,  \* the conflict spec object the caller passed, as it is now
  now,             \* the instant the call read (0: it read none)
  handed,          \* what the call handed to the database client
  issued,          \* the statements handed to the driver during the call
  outcome,         \* how the call stands: pending, resolved, rejected, threw
  inst,            \* the Model instance the caller holds, if any
  ret,             \* what the finished operation returned besides a row
  failure          \* the error the driver raised and the error the caller got

vars == <<withTimestamps, clock, op, args, callerRow, callerConflict, now,
          handed, issued, outcome, inst, ret, failure>>

(***************************************************************************)
(* The inputs the caller draws from.                                       *)
(***************************************************************************)
TimestampKeys == {"created_at", "updated_at"}
RowKeys == {"a", "created_at", "updated_at"}
ChangeKeys == {"a", "updated_at"}
ConditionKeys == {"id", "a"}

\* what a caller may store under a timestamp key: falsy values and an old date
TimestampVals == {Null, Num(0), Str(0), Date(0)}
DataVals == {Str(1), Num(0)}
\* the primary keys the caller names and the store hands back
PkVals == {Num(7), Num(0), Str(0)}
ValsFor(k) == IF k \in TimestampKeys THEN TimestampVals
              ELSE IF k = "id" THEN PkVals ELSE DataVals

\* the mappings of exactly n keys drawn from keys, in every key order
RECURSIVE OrdMapsOfLen(_, _)
OrdMapsOfLen(keys, n) ==
  IF n = 0 THEN {<<>>}
  ELSE UNION { UNION { {Append(m, Entry(k, v)) : v \in ValsFor(k)}
                       : k \in keys \ KeySet(m) }
               : m \in OrdMapsOfLen(keys, n - 1) }

OrdMaps(keys, n) == UNION {OrdMapsOfLen(keys, i) : i \in 0..n}

RowArgs == {Missing} \cup {Some(m) : m \in OrdMaps(RowKeys, MaxKeys)}
ChangeArgs == {Missing} \cup {Some(m) : m \in OrdMaps(ChangeKeys, MaxKeys)}
ConditionArgs == {Missing} \cup {Some(m) : m \in OrdMaps(ConditionKeys, MaxKeys)}
Targets == {<<>>, <<"id">>, <<"a", "id">>}
ConflictArgs ==
  {NoConflict}
    \cup {Conflict(t, FALSE, <<>>) : t \in Targets}
    \cup {Conflict(t, TRUE, c) : t \in Targets, c \in OrdMaps(ChangeKeys, MaxKeys)}

\* the argument of findOne: a primary key value or a conditions object
KeyArg(v) == [isObj |-> FALSE, val |-> v, m |-> <<>>]
CondArg(m) == [isObj |-> TRUE, val |-> Undefined, m |-> m]

\* orderBy objects map a column to a direction; extra is a string
OrderArgs == {Missing, Some(<<Entry("a", "ASC")>>),
              Some(<<Entry("id", "DESC"), Entry("a", "ASC")>>)}
ExtraArgs == {"", "LIMIT 5"}

NoArgs == [row |-> Missing, conflict |-> NoConflict,
           changes |-> Missing, conditions |-> Missing,
           orderBy |-> Missing, extra |-> "", key |-> KeyArg(Undefined),
           columns |-> <<>>, start |-> 0, path |-> <<>>,
           attributes |-> Missing,
           prop |-> "", value |-> Undefined, read |-> <<>>,
           template |-> Missing, reused |-> FALSE, created |-> NoConflict]
NotHanded == [called |-> FALSE, row |-> Missing, conflict |-> NoConflict,
              changes |-> Missing, conditions |-> Missing,
              orderBy |-> Missing, extra |-> ""]

\* the attributes an instance is constructed with
InstanceAttrs == OrdMaps(ConditionKeys, MaxKeys)
\* the arguments of findOne
FindOneArgs == {KeyArg(v) : v \in PkVals \cup {Null, Undefined}}
                 \cup {CondArg(m) : m \in OrdMaps(ConditionKeys, MaxKeys)}
\* what the store answers to a SELECT, and to a SELECT COUNT(*): the count
\* arrives as a string of decimal digits
StoredRow1 == <<Entry("id", Num(7)), Entry("a", Str(1))>>
StoredRow2 == <<Entry("id", Num(0)), Entry("a", Num(0))>>
StoreRows == {<<>>, <<StoredRow1>>, <<StoredRow2, StoredRow1>>}
CountRows == {<<>>, <<<<0>>>>, <<<<1, 2>>>>}

\* attributes with nested objects: the values one and two levels down, and
\* the key paths getIn is asked for
NestedKeys == {"a", "b"}
ObjectsOver(vals) ==
  {<<>>}
    \cup {<<Entry("a", v)>> : v \in vals}
    \cup {<<Entry("b", v)>> : v \in vals}
    \cup {<<Entry("a", v), Entry("b", w)>> : v \in vals, w \in vals}
LeafVals == {Str(1), Num(0), Null}
InnerVals == LeafVals \cup {Obj(<<>>)}
OuterVals == LeafVals \cup {Obj(m) : m \in ObjectsOver(InnerVals)}
NestedAttrs == {Missing} \cup {Some(m) : m \in ObjectsOver(OuterVals)}
RECURSIVE PathsOfLen(_)
PathsOfLen(n) ==
  IF n = 0 THEN {<<>>}
  ELSE {Append(p, k) : p \in PathsOfLen(n - 1), k \in NestedKeys}
KeyPaths == UNION {PathsOfLen(n) : n \in 0..MaxPath}
\* the values set and setIn are given: one no attribute has, and a falsy one
SetVals == {Str(2), Null}
\* the rows of an upsert that passes the spec object of the upsert before it
SecondRows == {Some(<<>>)} \cup {Some(m) : m \in OrdMapsOfLen(ConditionKeys, 1)}
\* what the caller assigns to an instance while its create() is pending:
\* keys other than the primary key
Templates ==
  {<<Entry(k, v)>> : k \in {"a", "b"}, v \in SetVals}
    \cup {<<Entry("b", Str(2)), Entry("a", Str(2))>>}

NoInstance == [live |-> FALSE, attributes |-> Missing]
NoRet == [rows |-> <<>>, count |-> 0, val |-> Undefined, self |-> FALSE,
          fresh |-> Missing, fields |-> <<>>, placeholders |-> <<>>]
NoFailure == [driver |-> "none", caller |-> "none"]

Init ==
  /\ withTimestamps \in BOOLEAN
  /\ clock = 1
  /\ op = "none"
  /\ args = NoArgs
  /\ callerRow = Missing
  /\ callerConflict = NoConflict
  /\ now = 0
  /\ handed = NotHanded
  /\ issued = <<>>
  /\ outcome = [status |-> "none", row |-> Missing]
  /\ inst = NoInstance
  /\ ret = NoRet
  /\ failure = NoFailure

(***************************************************************************)
(* Model.insert: the row and the conflict spec it hands to the client.     *)
(***************************************************************************)
\* const row = Object.assign({}, _row)
copyRow(row) == ObjectAssign(<<>>, row.m)

\* const changes = Object.assign({}, onConflict.changes)
copyChanges(onConflict) ==
  ObjectAssign(<<>>, IF onConflict.hasChanges THEN onConflict.changes ELSE <<>>)

\* a mutant of stampRow: each timestamp reads the clock for itself
stampRow_twoReads(row, t) ==
  ObjectAssign(row, <<Entry("created_at", Or(Get(row, "created_at"), Date(t))),
                      Entry("updated_at", Or(Get(row, "updated_at"), Date(t + 1)))>>)

\* a mutant of stampRow: created_at is not written
stampRow_noCreated(row, t) ==
  ObjectAssign(row, <<Entry("updated_at", Or(Get(row, "updated_at"), Date(t)))>>)

\* Object.assign(row, { created_at: row.created_at || now, updated_at: ... })
stampRow(row, t) ==
  ObjectAssign(row, <<Entry("created_at", Or(Get(row, "created_at"), Date(t))),
                      Entry("updated_at", Or(Get(row, "updated_at"), Date(t)))>>)

\* a mutant of stampChanges: the changes are left as they came
stampChanges_keeps(changes, t) == changes

\* changes.updated_at = changes.updated_at || now
stampChanges(changes, t) ==
  Put(changes, "updated_at", Or(Get(changes, "updated_at"), Date(t)))

\* a mutant of insertEnrich: a spec without changes gets a copy of the row
\* taken before the timestamps are written
insertEnrich_copiesRow(row, onConflict, ts, t) ==
  LET row0 == copyRow(row)
      changes0 == IF onConflict.def /\ onConflict.hasChanges
                  THEN copyChanges(onConflict) ELSE row0
      row1 == IF ts THEN stampRow(row0, t) ELSE row0
      changes1 == IF ts /\ onConflict.def THEN stampChanges(changes0, t) ELSE changes0
  IN [row |-> row1,
      conflict |-> IF onConflict.def
                   THEN Conflict(onConflict.target, TRUE, changes1)
                   ELSE NoConflict]

\* The body of insert up to the call of the client.  When the spec has no
\* changes, onConflict.changes and row are one object: what is written
\* through one name shows through the other.
insertEnrich(row, onConflict, ts, t) ==
  LET row0 == copyRow(row)
      shared == onConflict.def /\ ~onConflict.hasChanges
      changes0 == IF onConflict.def /\ onConflict.hasChanges
                  THEN copyChanges(onConflict) ELSE <<>>
      row1 == IF ts THEN stampRow(row0, t) ELSE row0
      changes1 == IF shared THEN row1 ELSE changes0
      changes2 == IF ts /\ onConflict.def THEN stampChanges(changes1, t) ELSE changes1
      row2 == IF shared THEN changes2 ELSE row1
  IN [row |-> row2,
      conflict |-> IF onConflict.def
                   THEN Conflict(onConflict.target, TRUE, changes2)
                   ELSE NoConflict]

(***************************************************************************)
(* Calls.  A call runs to its await (or to its throw) in one step; the     *)
(* driver settles it in a later step.                                      *)
(***************************************************************************)
Idle == outcome.status = "none" /\ ~inst.live

Begin(opName, a, h, q, cRow, cConflict, t) ==
  /\ op' = opName
  /\ args' = a
  /\ handed' = h
  /\ issued' = IF q.threw THEN <<>> ELSE <<[text |-> q.text, values |-> q.values]>>
  /\ outcome' = [status |-> IF q.threw THEN "threw" ELSE "pending", row |-> Missing]
  /\ callerRow' = cRow
  /\ callerConflict' = cConflict
  /\ now' = t
  /\ ret' = NoRet
  /\ failure' = [driver |-> "none", caller |-> IF q.threw THEN "thrown" ELSE "none"]
  /\ UNCHANGED <<withTimestamps, clock, inst>>

\* static insert(_row, onConflict, returning = '*')
insert(opName, row, passed, onConflict) ==
  LET e == insertEnrich(row, onConflict, withTimestamps, clock)
      q == Postgres_insert(tableName, Some(e.row), "*", e.conflict)
  IN Begin(opName,
           [NoArgs EXCEPT !.row = row, !.conflict = passed,
                          !.attributes = inst.attributes],
           [NotHanded EXCEPT !.called = TRUE, !.row = Some(e.row),
                             !.conflict = e.conflict],
           q,
           row,
           IF passed.def THEN e.conflict ELSE NoConflict,
           IF withTimestamps THEN clock ELSE 0)

\* static create(row)
create ==
  /\ Idle
  /\ \E row \in RowArgs : insert("create", row, NoConflict, NoConflict)

\* static upsert(row, onConflict = { target: [this.primaryKey] })
upsert ==
  /\ Idle
  /\ \E row \in RowArgs, passed \in ConflictArgs :
       insert("upsert", row, passed,
              IF passed.def THEN passed ELSE Conflict(<<primaryKey>>, FALSE, <<>>))

\* upsert(row, spec) with the spec object that the upsert just resolved was
\* given: the object is as that call left it
upsert_again ==
  /\ op = "upsert"
  /\ outcome.status = "resolved"
  /\ ~inst.live
  /\ args.conflict.def
  /\ ~args.conflict.hasChanges
  /\ ~args.reused
  /\ \E row \in SecondRows :
       LET e == insertEnrich(row, callerConflict, withTimestamps, clock)
       IN Begin("upsert",
                [NoArgs EXCEPT !.row = row, !.conflict = callerConflict,
                               !.reused = TRUE, !.created = args.conflict],
                [NotHanded EXCEPT !.called = TRUE, !.row = Some(e.row),
                                  !.conflict = e.conflict],
                Postgres_insert(tableName, Some(e.row), "*", e.conflict),
                row, e.conflict,
                IF withTimestamps THEN clock ELSE 0)

\* changes = withTimestamps ? { ...changes, updated_at: changes.updated_at || new Date() } : changes
updateChanges(changes, ts, t) ==
  IF ts
  THEN Some(Put(ObjectAssign(<<>>, changes.m), "updated_at",
                Or(Get(changes.m, "updated_at"), Date(t))))
  ELSE changes

\* static update(changes, conditions).  With the flag set, reading
\* changes.updated_at of a missing changes throws before the client is called.
Model_update(opName, a, changes, conditions) ==
  LET c == updateChanges(changes, withTimestamps, clock)
  IN IF withTimestamps /\ ~changes.def
     THEN Begin(opName, a, NotHanded, Threw, Missing, NoConflict, 0)
     ELSE Begin(opName, a,
                [NotHanded EXCEPT !.called = TRUE, !.changes = c,
                                  !.conditions = conditions],
                Postgres_update(tableName, c, conditions),
                Missing, NoConflict,
                IF withTimestamps THEN clock ELSE 0)

update ==
  Idle /\ \E changes \in ChangeArgs, conditions \in ConditionArgs :
    Model_update("update",
                 [NoArgs EXCEPT !.changes = changes, !.conditions = conditions],
                 changes, conditions)

\* static delete(conditions)
Model_delete(opName, a, conditions) ==
  Begin(opName, a,
        [NotHanded EXCEPT !.called = TRUE, !.conditions = conditions],
        Postgres_delete(tableName, conditions),
        Missing, NoConflict, 0)

delete ==
  Idle /\ \E conditions \in ConditionArgs :
    Model_delete("delete", [NoArgs EXCEPT !.conditions = conditions], conditions)

\* static find(conditions?, orderBy?, extra?)
find ==
  Idle /\ \E conditions \in ConditionArgs, orderBy \in OrderArgs,
              extra \in ExtraArgs :
    Begin("find",
          [NoArgs EXCEPT !.conditions = conditions, !.orderBy = orderBy,
                         !.extra = extra],
          [NotHanded EXCEPT !.called = TRUE, !.conditions = conditions,
                            !.orderBy = orderBy, !.extra = extra],
          Postgres_select(tableName, conditions, orderBy, extra),
          Missing, NoConflict, 0)

\* typeof x === 'object': true of every object, and of null
typeofObject(x) == x.isObj \/ x.val = Null

\* the conditions of findOne; Missing stands for the null that is passed on
findOneConditions(primaryKeyOrCond) ==
  IF typeofObject(primaryKeyOrCond)
  THEN IF primaryKeyOrCond.isObj THEN Some(primaryKeyOrCond.m) ELSE Missing
  ELSE Some(<<Entry(primaryKey, primaryKeyOrCond.val)>>)

\* static findOne(primaryKeyOrCond, orderBy?)
Model_findOne(opName, a, primaryKeyOrCond, orderBy) ==
  LET conditions == findOneConditions(primaryKeyOrCond)
  IN Begin(opName, a,
           [NotHanded EXCEPT !.called = TRUE, !.conditions = conditions,
                             !.orderBy = orderBy],
           Postgres_selectOne(tableName, conditions, orderBy),
           Missing, NoConflict, 0)

findOne ==
  Idle /\ \E primaryKeyOrCond \in FindOneArgs, orderBy \in OrderArgs :
    Model_findOne("findOne",
                  [NoArgs EXCEPT !.key = primaryKeyOrCond, !.orderBy = orderBy],
                  primaryKeyOrCond, orderBy)

\* static count(conditions, extra?)
count ==
  Idle /\ \E conditions \in ConditionArgs, extra \in ExtraArgs :
    Begin("count",
          [NoArgs EXCEPT !.conditions = conditions, !.extra = extra],
          [NotHanded EXCEPT !.called = TRUE, !.conditions = conditions,
                            !.extra = extra],
          Postgres_count(tableName, conditions, extra),
          Missing, NoConflict, 0)

\* the fragment builders are public: toAssignmentFields(columns, start) and
\* toValuePlaceholders(columns, start) called on their own
fragments ==
  /\ Idle
  /\ \E columns \in OrdMaps(ConditionKeys, MaxKeys), start \in 0..MaxStart :
       /\ args' = [NoArgs EXCEPT !.columns = columns, !.start = start]
       /\ ret' = [NoRet EXCEPT !.fields = toAssignmentFields(columns, start),
                               !.placeholders = toValuePlaceholders(columns, start)]
  /\ op' = "fragments"
  /\ outcome' = [status |-> "returned", row |-> Missing]
  /\ UNCHANGED <<withTimestamps, clock, callerRow, callerConflict, now, handed,
                 issued, inst, failure>>

(***************************************************************************)
(* Instances.  The caller holds at most one; while it holds one, it calls  *)
(* the instance's methods.                                                 *)
(***************************************************************************)
Held == outcome.status = "none" /\ inst.live

\* new Model(attributes)
construct ==
  /\ Idle
  /\ \E attributes \in InstanceAttrs :
       inst' = [live |-> TRUE, attributes |-> Some(attributes)]
  /\ UNCHANGED <<withTimestamps, clock, op, args, callerRow, callerConflict,
                 now, handed, issued, outcome, ret, failure>>

\* the caller drops the instance
discard ==
  /\ Held
  /\ inst' = NoInstance
  /\ UNCHANGED <<withTimestamps, clock, op, args, callerRow, callerConflict,
                 now, handed, issued, outcome, ret, failure>>

\* get(key)
get(attributes, key) == Get(attributes.m, key)

\* getDefaultQuery(): { [primaryKey]: this.get(primaryKey) }
getDefaultQuery(attributes) ==
  Some(<<Entry(primaryKey, get(attributes, primaryKey))>>)

\* a mutant of instanceQuery: the supplied conditions are ignored
instanceQuery_ignores(conditions, attributes) == getDefaultQuery(attributes)

\* conditions ? conditions : this.getDefaultQuery()
instanceQuery(conditions, attributes) ==
  IF conditions.def THEN conditions ELSE getDefaultQuery(attributes)

\* create(): Constructor.create(this.attributes)
proto_create ==
  Held /\ insert("proto_create", inst.attributes, NoConflict, NoConflict)

\* upsert(onConflict?): Constructor.upsert(this.attributes, onConflict)
proto_upsert ==
  Held /\ \E passed \in ConflictArgs :
    insert("proto_upsert", inst.attributes, passed,
           IF passed.def THEN passed ELSE Conflict(<<primaryKey>>, FALSE, <<>>))

\* update(conditions?): Constructor.update(this.attributes, query)
proto_update ==
  Held /\ \E conditions \in ConditionArgs :
    Model_update("proto_update",
                 [NoArgs EXCEPT !.conditions = conditions,
                                !.attributes = inst.attributes],
                 inst.attributes,
                 instanceQuery(conditions, inst.attributes))

\* delete(conditions?): Constructor.delete(query)
proto_delete ==
  Held /\ \E conditions \in ConditionArgs :
    Model_delete("proto_delete",
                 [NoArgs EXCEPT !.conditions = conditions,
                                !.attributes = inst.attributes],
                 instanceQuery(conditions, inst.attributes))

\* a mutant of set: the attributes are replaced by the one key
set_replaces(attributes, key, value) == Some(<<Entry(key, value)>>)

\* set(key, value): this.attributes[key] = value
set(attributes, key, value) == Some(Put(attributes.m, key, value))

\* assign(template): this.attributes = Object.assign({}, this.attributes, template)
assign(attributes, template) ==
  Some(ObjectAssign(ObjectAssign(<<>>, attributes.m), template))

\* the caller's code runs while create() awaits the store: it calls
\* assign(template) on the instance
pending_assign ==
  /\ inst.live
  /\ outcome.status = "pending"
  /\ op = "proto_create"
  /\ ~args.template.def
  /\ \E template \in Templates :
       LET attributes == assign(inst.attributes, template)
       IN /\ inst' = [inst EXCEPT !.attributes = attributes]
          /\ args' = [args EXCEPT !.template = Some(template),
                                  !.attributes = attributes]
  /\ UNCHANGED <<withTimestamps, clock, op, callerRow, callerConflict, now,
                 handed, issued, outcome, ret, failure>>

\* ... or it calls set(key, value) on the instance
pending_set ==
  /\ inst.live
  /\ outcome.status = "pending"
  /\ op = "proto_create"
  /\ ~args.template.def
  /\ \E key \in {"a", "b"}, value \in SetVals :
       LET attributes == set(inst.attributes, key, value)
       IN /\ inst' = [inst EXCEPT !.attributes = attributes]
          /\ args' = [args EXCEPT !.template = Some(<<Entry(key, value)>>),
                                  !.attributes = attributes]
  /\ UNCHANGED <<withTimestamps, clock, op, callerRow, callerConflict, now,
                 handed, issued, outcome, ret, failure>>

\* retreive(): Constructor.findOne(this.getDefaultQuery())
retreive ==
  Held /\ Model_findOne("retreive",
                        [NoArgs EXCEPT !.attributes = inst.attributes],
                        CondArg(getDefaultQuery(inst.attributes).m), Missing)

\* this.attributes as a value: an object, or undefined
AsValue(attributes) == IF attributes.def THEN Obj(attributes.m) ELSE Undefined

\* value[prop] of a truthy value: a property of an object, or undefined
Index(value, prop) == IF value.kind = "obj" THEN Get(value.n, prop) ELSE Undefined

\* for (let prop of keyPath) { if (!value) return null; value = value[prop] }
\* return value
RECURSIVE getInLoop(_, _)
getInLoop(value, keyPath) ==
  IF keyPath = <<>> THEN value
  ELSE IF Falsy(value) THEN Null
  ELSE getInLoop(Index(value, Head(keyPath)), Tail(keyPath))

\* a mutant of getInValue: the empty path is not looked at
getInValue_noEmptyCheck(attributes, keyPath) ==
  getInLoop(AsValue(attributes), keyPath)

\* the value getIn(keyPath) returns
getInValue(attributes, keyPath) ==
  IF Len(keyPath) = 0 THEN Null
  ELSE getInLoop(AsValue(attributes), keyPath)

\* getIn(keyPath)
getIn ==
  /\ Held
  /\ \E keyPath \in KeyPaths :
       /\ args' = [NoArgs EXCEPT !.path = keyPath, !.attributes = inst.attributes]
       /\ ret' = [NoRet EXCEPT !.val = getInValue(inst.attributes, keyPath)]
  /\ op' = "getIn"
  /\ outcome' = [status |-> "returned", row |-> Missing]
  /\ UNCHANGED <<withTimestamps, clock, callerRow, callerConflict, now, handed,
                 issued, inst, failure>>

\* a method call chained on the instance the last method returned
Chained(opName) ==
  inst.live /\ outcome.status = "returned" /\ op = opName /\ ret.self

\* a method that reads a property of this.attributes, on undefined
\* attributes: a TypeError
MethodThrows(opName, a) ==
  /\ op' = opName
  /\ args' = a
  /\ ret' = NoRet
  /\ outcome' = [status |-> "threw", row |-> Missing]
  /\ failure' = [driver |-> "none", caller |-> "TypeError"]
  /\ UNCHANGED <<withTimestamps, clock, callerRow, callerConflict, now, handed,
                 issued, inst>>

\* a method that returns r, leaving the instance with the attributes given
MethodReturns(opName, a, r, attributes) ==
  /\ op' = opName
  /\ args' = a
  /\ ret' = r
  /\ inst' = [inst EXCEPT !.attributes = attributes]
  /\ outcome' = [status |-> "returned", row |-> Missing]
  /\ UNCHANGED <<withTimestamps, clock, callerRow, callerConflict, now, handed,
                 issued, failure>>

\* get(key) on its own
proto_get ==
  /\ Held
  /\ \E key \in NestedKeys :
       LET a == [NoArgs EXCEPT !.read = <<key>>, !.attributes = inst.attributes]
       IN IF ~inst.attributes.def THEN MethodThrows("get", a)
          ELSE MethodReturns("get", a,
                             [NoRet EXCEPT !.val = get(inst.attributes, key)],
                             inst.attributes)

\* set(key, value) on its own: returns this
proto_set ==
  /\ Held
  /\ \E key \in NestedKeys, value \in SetVals :
       LET a == [NoArgs EXCEPT !.prop = key, !.value = value,
                               !.attributes = inst.attributes]
       IN IF ~inst.attributes.def THEN MethodThrows("set", a)
          ELSE MethodReturns("set", a, [NoRet EXCEPT !.self = TRUE],
                             set(inst.attributes, key, value))

\* set(k, v).get(key)
set_get ==
  /\ Chained("set")
  /\ \E key \in NestedKeys :
       MethodReturns("set.get", [args EXCEPT !.read = <<key>>],
                     [NoRet EXCEPT !.val = get(inst.attributes, key)],
                     inst.attributes)

\* the loop of setIn from the value nested on: what it ends with ("null":
\* return null; "this": the loop ran out; "primitive": the last key was
\* assigned on a truthy value that is no object) and the value nested is
\* after it.  Objects are written in place: the write shows in every object
\* that holds the one written.
RECURSIVE setInLoop(_, _, _)
setInLoop(nested, keyPath, value) ==
  IF keyPath = <<>> THEN [res |-> "this", v |-> nested]
  ELSE IF Falsy(nested) THEN [res |-> "null", v |-> nested]
  ELSE IF Len(keyPath) = 1
  THEN IF nested.kind = "obj"
       THEN [res |-> "this", v |-> Obj(Put(nested.n, Head(keyPath), value))]
       ELSE [res |-> "primitive", v |-> nested]
  ELSE LET r == setInLoop(Index(nested, Head(keyPath)), Tail(keyPath), value)
       IN [res |-> r.res,
           v |-> IF r.res = "this" /\ nested.kind = "obj"
                 THEN Obj(Put(nested.n, Head(keyPath), r.v)) ELSE nested]

\* setIn(keyPath, value).  Assigning a property on a truthy primitive is a
\* TypeError in strict code and is ignored in sloppy code: either, by how
\* the class is compiled.
proto_setIn ==
  /\ Held
  /\ \E keyPath \in KeyPaths, value \in SetVals, strict \in BOOLEAN :
       LET a == [NoArgs EXCEPT !.path = keyPath, !.value = value,
                               !.attributes = inst.attributes]
           r == setInLoop(AsValue(inst.attributes), keyPath, value)
       IN IF r.res = "primitive" /\ strict THEN MethodThrows("setIn", a)
          ELSE MethodReturns("setIn", a,
                             IF r.res = "null" THEN [NoRet EXCEPT !.val = Null]
                             ELSE [NoRet EXCEPT !.self = TRUE],
                             IF r.v.kind = "obj" THEN Some(r.v.n)
                             ELSE inst.attributes)

\* setIn(keyPath, value).getIn(keyPath)
setIn_getIn ==
  /\ Chained("setIn")
  /\ MethodReturns("setIn.getIn", [args EXCEPT !.read = args.path],
                   [NoRet EXCEPT !.val = getInValue(inst.attributes, args.path)],
                   inst.attributes)

\* new Model(attributes), of attributes with nested objects
constructNested ==
  /\ Idle
  /\ \E attributes \in NestedAttrs :
       inst' = [live |-> TRUE, attributes |-> attributes]
  /\ UNCHANGED <<withTimestamps, clock, op, args, callerRow, callerConflict,
                 now, handed, issued, outcome, ret, failure>>

\* the caller has the method's result and is done with the instance
release ==
  /\ inst.live
  /\ outcome.status \in {"returned", "threw"}
  /\ inst' = NoInstance
  /\ op' = "none"
  /\ args' = NoArgs
  /\ ret' = NoRet
  /\ failure' = NoFailure
  /\ outcome' = [status |-> "none", row |-> Missing]
  /\ UNCHANGED <<withTimestamps, clock, callerRow, callerConflict, now, handed,
                 issued>>

(***************************************************************************)
(* The driver settles the pending statement; the operation then runs on.   *)
(***************************************************************************)

\* the driver answers an update or a delete
writeResolves ==
  /\ outcome.status = "pending"
  /\ op \in {"update", "delete", "proto_update", "proto_delete"}
  /\ outcome' = [status |-> "resolved", row |-> Missing]
  /\ UNCHANGED <<withTimestamps, clock, op, args, callerRow, callerConflict,
                 now, handed, issued, inst, ret, failure>>

\* the driver answers an insert: no row, or the persisted row with its key
insertResolves ==
  /\ outcome.status = "pending"
  /\ op \in {"create", "upsert"}
  /\ \E rows \in {<<>>} \cup {<<Put(handed.row.m, primaryKey, pk)>> : pk \in PkVals} :
       outcome' = [status |-> "resolved",
                   row |-> IF rows = <<>> THEN Missing ELSE Some(rows[1])]
  /\ UNCHANGED <<withTimestamps, clock, op, args, callerRow, callerConflict,
                 now, handed, issued, inst, ret, failure>>

\* a mutant of protoAfterInsert: the key is set on the attributes the
\* instance had when the call began
protoAfterInsert_stale(attributes, rows) ==
  IF rows = <<>>
  THEN [threw |-> TRUE, attributes |-> attributes]
  ELSE [threw |-> FALSE,
        attributes |-> IF Falsy(Get(rows[1], primaryKey)) THEN attributes
                       ELSE set(args.row, primaryKey, Get(rows[1], primaryKey))]

\* instance create() and upsert() after the await: row = rows[0];
\* if (row[primaryKey]) this.set(primaryKey, row[primaryKey]).  Reading a
\* property of the undefined row is a TypeError.
protoAfterInsert(attributes, rows) ==
  IF rows = <<>>
  THEN [threw |-> TRUE, attributes |-> attributes]
  ELSE [threw |-> FALSE,
        attributes |-> IF Falsy(Get(rows[1], primaryKey)) THEN attributes
                       ELSE set(attributes, primaryKey, Get(rows[1], primaryKey))]

\* the driver answers the insert of an instance's create() or upsert()
protoInsertResolves ==
  /\ outcome.status = "pending"
  /\ op \in {"proto_create", "proto_upsert"}
  /\ \E rows \in {<<>>} \cup {<<Put(handed.row.m, primaryKey, pk)>> : pk \in PkVals} :
       LET after == protoAfterInsert(inst.attributes, rows)
       IN /\ inst' = [inst EXCEPT !.attributes = after.attributes]
          /\ outcome' = IF after.threw
                        THEN [status |-> "rejected", row |-> Missing]
                        ELSE [status |-> "resolved", row |-> Some(rows[1])]
          /\ failure' = IF after.threw
                        THEN [driver |-> "none", caller |-> "TypeError"]
                        ELSE failure
  /\ UNCHANGED <<withTimestamps, clock, op, args, callerRow, callerConflict,
                 now, handed, issued, ret>>

\* the driver answers a find: the rows are returned as they are
findResolves ==
  /\ outcome.status = "pending"
  /\ op = "find"
  /\ \E rows \in StoreRows :
       ret' = [ret EXCEPT !.rows = rows]
  /\ outcome' = [status |-> "resolved", row |-> Missing]
  /\ UNCHANGED <<withTimestamps, clock, op, args, callerRow, callerConflict,
                 now, handed, issued, inst, failure>>

\* the driver answers a findOne: rows[0]
findOneResolves ==
  /\ outcome.status = "pending"
  /\ op = "findOne"
  /\ \E rows \in StoreRows :
       outcome' = [status |-> "resolved",
                   row |-> IF rows = <<>> THEN Missing ELSE Some(rows[1])]
  /\ UNCHANGED <<withTimestamps, clock, op, args, callerRow, callerConflict,
                 now, handed, issued, inst, ret, failure>>

\* the driver answers a count: result.length ? parseInt(result[0].count, 10) : 0
countResolves ==
  /\ outcome.status = "pending"
  /\ op = "count"
  /\ \E result \in CountRows :
       ret' = [ret EXCEPT !.count = IF Len(result) > 0 THEN parseInt(result[1])
                                   ELSE 0]
  /\ outcome' = [status |-> "resolved", row |-> Missing]
  /\ UNCHANGED <<withTimestamps, clock, op, args, callerRow, callerConflict,
                 now, handed, issued, inst, failure>>

\* a mutant of retreiveReturn: the fetched attributes are loaded into the
\* receiver, which is returned
retreiveReturn_loads(attributes, rows) ==
  [self |-> TRUE, fresh |-> Missing,
   attributes |-> IF rows = <<>> THEN attributes ELSE Some(rows[1])]

\* retreive() after the await: a new instance of the fetched attributes, or
\* the receiver when nothing was fetched
retreiveReturn(attributes, rows) ==
  IF rows # <<>>
  THEN [self |-> FALSE, fresh |-> Some(rows[1]), attributes |-> attributes]
  ELSE [self |-> TRUE, fresh |-> Missing, attributes |-> attributes]

\* the driver answers the findOne of a retreive()
retreiveResolves ==
  /\ outcome.status = "pending"
  /\ op = "retreive"
  /\ \E rows \in StoreRows :
       LET r == retreiveReturn(inst.attributes, rows)
       IN /\ ret' = [ret EXCEPT !.self = r.self, !.fresh = r.fresh]
          /\ inst' = [inst EXCEPT !.attributes = r.attributes]
          /\ outcome' = [status |-> "resolved",
                         row |-> IF rows = <<>> THEN Missing ELSE Some(rows[1])]
  /\ UNCHANGED <<withTimestamps, clock, op, args, callerRow, callerConflict,
                 now, handed, issued, failure>>

\* the errors the driver raises
DriverErrors == {"unique_violation", "connection_lost"}

\* a mutant of driverRejects: the failed statement is issued once more
driverRejects_retries ==
  /\ outcome.status = "pending"
  /\ Len(issued) = 1
  /\ issued' = issued \o issued
  /\ UNCHANGED <<withTimestamps, clock, op, args, callerRow, callerConflict,
                 now, handed, outcome, inst, ret, failure>>

\* the driver fails: no operation catches, so the error reaches the caller
\* as it is and nothing after the await runs
driverRejects ==
  /\ outcome.status = "pending"
  /\ \E e \in DriverErrors :
       failure' = [driver |-> e, caller |-> e]
  /\ outcome' = [status |-> "rejected", row |-> Missing]
  /\ UNCHANGED <<withTimestamps, clock, op, args, callerRow, callerConflict,
                 now, handed, issued, inst, ret>>

\* the caller has the call's result and lets go of the call's objects
returns ==
  /\ outcome.status \in {"resolved", "rejected", "threw", "returned"}
  /\ op' = "none"
  /\ args' = NoArgs
  /\ callerRow' = Missing
  /\ callerConflict' = NoConflict
  /\ now' = 0
  /\ handed' = NotHanded
  /\ issued' = <<>>
  /\ outcome' = [status |-> "none", row |-> Missing]
  /\ ret' = NoRet
  /\ failure' = NoFailure
  /\ UNCHANGED <<withTimestamps, clock, inst>>

\* time passes
Tick ==
  /\ clock < MaxClock
  /\ clock' = clock + 1
  /\ UNCHANGED <<withTimestamps, op, args, callerRow, callerConflict, now,
                 handed, issued, outcome, inst, ret, failure>>

Next ==
  \/ create
  \/ upsert
  \/ update
  \/ delete
  \/ find
  \/ findOne
  \/ count
  \/ fragments
  \/ construct
  \/ discard
  \/ proto_create
  \/ proto_upsert
  \/ proto_update
  \/ proto_delete
  \/ retreive
  \/ upsert_again
  \/ pending_assign
  \/ pending_set
  \/ insertResolves
  \/ protoInsertResolves
  \/ writeResolves
  \/ findResolves
  \/ findOneResolves
  \/ countResolves
  \/ retreiveResolves
  \/ driverRejects
  \/ returns
  \/ Tick

Spec == Init /\ [][Next]_vars

(***************************************************************************)
(* The in-memory helpers of an instance, on attributes with nested         *)
(* objects: they hand nothing to the client.                               *)
(***************************************************************************)
MemInit ==
  /\ withTimestamps = FALSE
  /\ clock = 1
  /\ op = "none"
  /\ args = NoArgs
  /\ callerRow = Missing
  /\ callerConflict = NoConflict
  /\ now = 0
  /\ handed = NotHanded
  /\ issued = <<>>
  /\ outcome = [status |-> "none", row |-> Missing]
  /\ inst \in {[live |-> TRUE, attributes |-> attributes] :
                 attributes \in NestedAttrs}
  /\ ret = NoRet
  /\ failure = NoFailure

MemNext ==
  \/ getIn
  \/ proto_get
  \/ proto_set
  \/ set_get
  \/ proto_setIn
  \/ setIn_getIn
  \/ release
  \/ constructNested

MemSpec == MemInit /\ [][MemNext]_vars

(***************************************************************************)
(* Reading a statement: its placeholders and the columns they are bound to *)
(***************************************************************************)
TokensOf(text, kind) == SelectSeq(text, LAMBDA tok : tok.k = kind)

\* the placeholder numbers that occur in the text
PlaceholderSet(text) ==
  {text[i].n : i \in {j \in 1..Len(text) : text[j].k \in {"ph", "asg"}}}

\* the tokens before / after the WHERE of an UPDATE or DELETE
WhereAt(text) == CHOOSE i \in 1..Len(text) : text[i] = Kw("WHERE")
BeforeWhere(text) == SubSeq(text, 1, WhereAt(text) - 1)
AfterWhere(text) == SubSeq(text, WhereAt(text) + 1, Len(text))

Inserting == op \in {"create", "upsert"}

(***************************************************************************)
(* C1.  Every INSERT handed to the driver has exactly as many values as    *)
(* its text has distinct placeholders $1..$K, and the value at position    *)
(* N-1 is the value of the column the text binds to $N: the i-th column of *)
(* the column list for the i-th VALUES placeholder, the assigned column    *)
(* for a placeholder of the DO UPDATE SET clause.                          *)
(***************************************************************************)
C1_InsertValuesAligned ==
  (Inserting /\ issued # <<>>) =>
    LET text == issued[1].text
        values == issued[1].values
        cols == TokensOf(text, "col")
        phs == TokensOf(text, "ph")
        asgs == TokensOf(text, "asg")
    IN /\ PlaceholderSet(text) = 1..Len(values)
       /\ Len(cols) = Len(phs)
       /\ \A i \in 1..Len(phs) :
            /\ phs[i].n \in 1..Len(values)
            /\ values[phs[i].n] = Get(handed.row.m, cols[i].s)
       /\ \A i \in 1..Len(asgs) :
            /\ asgs[i].n \in 1..Len(values)
            /\ values[asgs[i].n] = Get(handed.conflict.changes, asgs[i].s)

(***************************************************************************)
(* C2.  An UPDATE of c changes (after timestamp enrichment) and k          *)
(* conditions numbers its SET clause $1..$c in changes key order and its   *)
(* WHERE clause $(c+1)..$(c+k) in conditions key order, uses no number     *)
(* twice, and its values are the changes values followed by the conditions *)
(* values, so that the value at N-1 belongs to the column bound to $N.     *)
(***************************************************************************)
C2_UpdatePlaceholders ==
  (op = "update" /\ issued # <<>>) =>
    LET text == issued[1].text
        values == issued[1].values
        changes == handed.changes.m
        conditions == handed.conditions.m
        c == Len(changes)
        k == Len(conditions)
        sets == TokensOf(BeforeWhere(text), "asg")
        wheres == TokensOf(AfterWhere(text), "asg")
        all == sets \o wheres
    IN /\ Len(sets) = c
       /\ Len(wheres) = k
       /\ \A i \in 1..c : sets[i] = Asg(changes[i].key, i)
       /\ \A j \in 1..k : wheres[j] = Asg(conditions[j].key, c + j)
       /\ \A i, j \in 1..(c + k) : all[i].n = all[j].n => i = j
       /\ values = ObjectValues(changes) \o ObjectValues(conditions)
       /\ \A i \in 1..c : values[sets[i].n] = Get(changes, sets[i].s)
       /\ \A j \in 1..k : values[wheres[j].n] = Get(conditions, wheres[j].s)

\* an update of two changes and one condition was handed to the driver
C2_Witness ==
  /\ op = "update"
  /\ issued # <<>>
  /\ Len(handed.changes.m) = 2
  /\ Len(handed.conditions.m) = 1
  /\ TokensOf(AfterWhere(issued[1].text), "asg")[1].n = 3

(***************************************************************************)
(* C3.  delete called without conditions fails, and no statement is handed *)
(* to the driver.                                                          *)
(***************************************************************************)
C3_DeleteMissingThrows ==
  (op = "delete" /\ ~args.conditions.def) =>
    (outcome.status = "threw" /\ issued = <<>>)

C3_Witness ==
  op = "delete" /\ ~args.conditions.def /\ outcome.status = "threw"

(***************************************************************************)
(* C4.  delete never hands the driver a DELETE whose WHERE clause has no   *)
(* equality term; called with an empty mapping it fails and issues         *)
(* nothing.                                                                *)
(***************************************************************************)
C4_DeleteNeverUnrestricted ==
  op = "delete" =>
    /\ \A i \in 1..Len(issued) :
         TokensOf(AfterWhere(issued[i].text), "asg") # <<>>
    /\ (args.conditions.def /\ args.conditions.m = <<>>) =>
         (outcome.status = "threw" /\ issued = <<>>)

(***************************************************************************)
(* C5.  create/insert without a row, and update without changes or without *)
(* conditions, fail before any statement is handed to the driver.          *)
(***************************************************************************)
C5_MissingArgumentsFail ==
  (\/ (Inserting /\ ~args.row.def)
   \/ (op = "update" /\ (~args.changes.def \/ ~args.conditions.def))) =>
    (outcome.status = "threw" /\ issued = <<>>)

(***************************************************************************)
(* C6.  upsert without a conflict spec uses the target [primaryKey]; and   *)
(* when the conflict spec carries no changes, the changes handed to the    *)
(* client are, key for key and value for value, the row handed to it.      *)
(***************************************************************************)
C6_UpsertDefaults ==
  (op = "upsert" /\ handed.called) =>
    /\ ~args.conflict.def => handed.conflict.target = <<primaryKey>>
    /\ ~args.conflict.hasChanges =>
         /\ handed.conflict.hasChanges
         /\ handed.conflict.changes = handed.row.m

\* an upsert without a spec of a row that got its timestamps in the call
C6_Witness ==
  /\ op = "upsert"
  /\ handed.called
  /\ ~args.conflict.def
  /\ withTimestamps
  /\ args.row.def
  /\ Has(args.row.m, "a")
  /\ ~Has(args.row.m, "updated_at")
  /\ Len(handed.conflict.changes) = 3

(***************************************************************************)
(* C7.  With the timestamp flag set, the row and the changes an upsert     *)
(* hands to the client both carry updated_at; each is the instant of the   *)
(* call when the mapping it comes from (the caller's row; the spec's       *)
(* changes, or the row when the spec has none) lacked it; and a statement  *)
(* with a conflict target assigns that updated_at in its DO UPDATE SET.    *)
(***************************************************************************)
C7_UpsertUpdatedAt ==
  (op = "upsert" /\ withTimestamps /\ handed.called) =>
    LET changesFrom == IF args.conflict.hasChanges
                       THEN args.conflict.changes ELSE args.row.m
        changes == handed.conflict.changes
    IN /\ Has(handed.row.m, "updated_at")
       /\ Has(changes, "updated_at")
       /\ ~Falsy(Get(handed.row.m, "updated_at"))
       /\ ~Falsy(Get(changes, "updated_at"))
       /\ ~Has(args.row.m, "updated_at") =>
            Get(handed.row.m, "updated_at") = Date(now)
       /\ ~Has(changesFrom, "updated_at") =>
            Get(changes, "updated_at") = Date(now)
       /\ (issued # <<>> /\ handed.conflict.target # <<>>) =>
            \E i \in 1..Len(issued[1].text) :
              /\ issued[1].text[i].k = "asg"
              /\ issued[1].text[i].s = "updated_at"
              /\ issued[1].values[issued[1].text[i].n] = Get(changes, "updated_at")

\* an upsert whose row and whose own changes both lacked updated_at, at a
\* later instant than the first
C7_Witness ==
  /\ op = "upsert"
  /\ withTimestamps
  /\ handed.called
  /\ now > 1
  /\ args.conflict.hasChanges
  /\ args.conflict.target # <<>>
  /\ args.conflict.changes # <<>>
  /\ ~Has(args.conflict.changes, "updated_at")
  /\ ~Has(args.row.m, "updated_at")

(***************************************************************************)
(* C8.  With the timestamp flag set, create/insert of a row that has       *)
(* neither created_at nor updated_at hands the client the row as supplied  *)
(* plus created_at and updated_at, both the one instant read in the call;  *)
(* with the flag unset the row is handed over with no key added.           *)
(***************************************************************************)
C8_InsertStampsOnce ==
  (Inserting /\ handed.called) =>
    /\ (withTimestamps /\ KeySet(args.row.m) \cap TimestampKeys = {}) =>
         /\ handed.row.m = args.row.m \o <<Entry("created_at", Date(now)),
                                            Entry("updated_at", Date(now))>>
         /\ now \in 1..clock
    /\ ~withTimestamps => handed.row.m = args.row.m

\* a create, at a later instant than the first, of a row with a data column
\* and no timestamps
C8_Witness ==
  /\ op = "create"
  /\ withTimestamps
  /\ handed.called
  /\ now > 1
  /\ args.row.def
  /\ KeySet(args.row.m) = {"a"}

(***************************************************************************)
(* C9.  Whatever the caller supplies under created_at or updated_at in the *)
(* row given to create/upsert (null, 0 and the empty string included), the *)
(* row handed to the client carries exactly that value.                    *)
(***************************************************************************)
C9_CallerTimestampsWin ==
  (Inserting /\ handed.called) =>
    \A k \in TimestampKeys :
      Has(args.row.m, k) => Get(handed.row.m, k) = Get(args.row.m, k)

(***************************************************************************)
(* C10.  After static create/insert resolves with a returned row, the      *)
(* object the caller passed carries the primary key of that row.           *)
(***************************************************************************)
C10_CallerRowDecorated ==
  (Inserting /\ outcome.status = "resolved" /\ outcome.row.def /\ callerRow.def) =>
    /\ Has(callerRow.m, primaryKey)
    /\ Get(callerRow.m, primaryKey) = Get(outcome.row.m, primaryKey)

(***************************************************************************)
(* C11.  When the store executes an insert and returns no row, static      *)
(* create and upsert and the instance's create() and upsert() complete     *)
(* without raising, and the primary key of the caller's row or of the      *)
(* instance is left as it was.                                             *)
(***************************************************************************)
InsertOps == {"create", "upsert", "proto_create", "proto_upsert"}

\* the driver answered the statement, with no row
NoRowReturned ==
  /\ outcome.status \in {"resolved", "rejected"}
  /\ failure.driver = "none"
  /\ ~outcome.row.def

C11_NoRowIsBenign ==
  (op \in InsertOps /\ NoRowReturned) =>
    /\ outcome.status = "resolved"
    /\ failure.caller = "none"
    /\ callerRow = args.row
    /\ inst.live =>
         Get(inst.attributes.m, primaryKey) = Get(args.attributes.m, primaryKey)

(***************************************************************************)
(* C12.  No operation has more than one statement handed to the driver in  *)
(* a call; when the driver fails, the caller gets the driver's error as it *)
(* is, the one failed statement stays the only one, and the instance's     *)
(* attributes are what they were when the call began.                      *)
(***************************************************************************)
C12_OneStatementErrorsPass ==
  /\ Len(issued) <= 1
  /\ failure.driver # "none" =>
       /\ outcome.status = "rejected"
       /\ failure.caller = failure.driver
       /\ Len(issued) = 1
       /\ inst.attributes = args.attributes

\* the driver failed the upsert of an instance that has attributes
C12_Witness ==
  /\ op = "proto_upsert"
  /\ failure.driver = "connection_lost"
  /\ outcome.status = "rejected"
  /\ inst.live
  /\ inst.attributes.m # <<>>

(***************************************************************************)
(* C13.  Static update with the timestamp flag set hands the client the    *)
(* supplied changes with updated_at: the caller's value when the changes   *)
(* have the key, otherwise the instant of the call; with the flag unset    *)
(* the changes are handed over exactly as supplied.                        *)
(***************************************************************************)
C13_UpdateStampsChanges ==
  (op = "update" /\ handed.called) =>
    IF withTimestamps
    THEN handed.changes =
           Some(Put(args.changes.m, "updated_at",
                    IF Has(args.changes.m, "updated_at")
                    THEN Get(args.changes.m, "updated_at")
                    ELSE Date(now)))
    ELSE handed.changes = args.changes

(***************************************************************************)
(* C14.  findOne(x) hands the client the conditions {primaryKey: x} when x *)
(* is not a mapping (null and undefined included) and x itself when it is  *)
(* one; its statement ends with LIMIT 1; it resolves with the first row    *)
(* the store answers, or with undefined when there is none, and does not   *)
(* raise.                                                                  *)
(***************************************************************************)
C14_FindOneConditions ==
  (op = "findOne" /\ handed.called) =>
    /\ handed.conditions = IF args.key.isObj THEN Some(args.key.m)
                           ELSE Some(<<Entry(primaryKey, args.key.val)>>)
    /\ \A i \in 1..Len(issued) :
         issued[i].text[Len(issued[i].text)] = Kw("LIMIT 1")
    /\ outcome.status \in {"pending", "resolved", "rejected"}
    /\ failure.driver = "none" => failure.caller = "none"

(***************************************************************************)
(* C15.  The instance's update(conditions?) and delete(conditions?) hand   *)
(* the client the supplied conditions when there are any, otherwise        *)
(* exactly {primaryKey: the instance's primary key attribute}; and the     *)
(* instance's update passes the instance's attributes as the changes of    *)
(* the static update.                                                      *)
(***************************************************************************)
C15_InstanceForwards ==
  (op \in {"proto_update", "proto_delete"} /\ handed.called) =>
    /\ handed.conditions =
         IF args.conditions.def THEN args.conditions
         ELSE Some(<<Entry(primaryKey, Get(inst.attributes.m, primaryKey))>>)
    /\ op = "proto_update" =>
         handed.changes = updateChanges(inst.attributes, withTimestamps, now)
    /\ op = "proto_update" /\ ~withTimestamps =>
         handed.changes = inst.attributes

\* an update() without conditions of an instance that has a primary key and
\* another attribute
C15_Witness ==
  /\ op = "proto_update"
  /\ handed.called
  /\ ~args.conditions.def
  /\ Has(inst.attributes.m, primaryKey)
  /\ Len(inst.attributes.m) = 2
  /\ issued # <<>>

(***************************************************************************)
(* C16.  retreive() looks the instance up by {primaryKey: its primary key  *)
(* attribute}; when a row is found it returns a new instance of the        *)
(* fetched attributes, not the receiver; when none is found it returns     *)
(* the receiver; either way the receiver's attributes stay as they were.   *)
(***************************************************************************)
C16_RetreiveReturnsNew ==
  op = "retreive" =>
    /\ handed.conditions =
         Some(<<Entry(primaryKey, Get(args.attributes.m, primaryKey))>>)
    /\ inst.attributes = args.attributes
    /\ outcome.status = "resolved" =>
         IF outcome.row.def
         THEN ~ret.self /\ ret.fresh = outcome.row
         ELSE ret.self /\ ~ret.fresh.def

\* a retreive() that fetched attributes other than the receiver's
C16_Witness ==
  /\ op = "retreive"
  /\ outcome.status = "resolved"
  /\ outcome.row.def
  /\ ret.fresh.def
  /\ ret.fresh # inst.attributes
  /\ Has(inst.attributes.m, primaryKey)

(***************************************************************************)
(* C17.  toAssignmentFields(m, s) and toValuePlaceholders(m, s) return one *)
(* element per key of m, in key order, the i-th (from 0) carrying          *)
(* placeholder $(i + s + 1); and the statement of a find, findOne, count   *)
(* or delete has one "col" = $N term per condition key, numbered from $1   *)
(* in key order, with the condition values in that order as its values.    *)
(***************************************************************************)
C17_FragmentsNumbered ==
  /\ op = "fragments" =>
       /\ Len(ret.fields) = Len(args.columns)
       /\ Len(ret.placeholders) = Len(args.columns)
       /\ \A i \in 1..Len(args.columns) :
            /\ ret.fields[i].k = "asg"
            /\ ret.fields[i].s = args.columns[i].key
            /\ ret.fields[i].n = (i - 1) + args.start + 1
            /\ ret.placeholders[i].k = "ph"
            /\ ret.placeholders[i].n = (i - 1) + args.start + 1
  /\ (op \in {"find", "findOne", "count", "delete"} /\ issued # <<>>) =>
       LET conditions == IF handed.conditions.def THEN handed.conditions.m
                         ELSE <<>>
           terms == TokensOf(issued[1].text, "asg")
       IN /\ Len(terms) = Len(conditions)
          /\ \A i \in 1..Len(conditions) :
               /\ terms[i].s = conditions[i].key
               /\ terms[i].n = i
               /\ issued[1].values[i] = conditions[i].val
          /\ Len(issued[1].values) = Len(conditions)

\* the builders were called on two columns with a start index above 0
C17_Witness ==
  /\ op = "fragments"
  /\ args.start = MaxStart
  /\ Len(args.columns) = 2
  /\ ret.fields[2].n = MaxStart + 2
  /\ ret.placeholders[2].n = MaxStart + 2

(***************************************************************************)
(* C18.  The conflict clause of an insert statement is the literal         *)
(* ON CONFLICT DO NOTHING when the spec's target is empty; when the target *)
(* is not empty and the spec has changes it is ON CONFLICT (the targets,   *)
(* in order) DO UPDATE SET with one assignment per key of the changes, in  *)
(* key order, numbered $(n+1) .. $(n+|changes|), n being the number of     *)
(* values of the inserted row.                                             *)
(***************************************************************************)
IndexOf(text, tok) == CHOOSE i \in 1..Len(text) : text[i] = tok

\* the tokens between the closing of VALUES(...) and RETURNING
ConflictClauseOf(text) ==
  SubSeq(text, IndexOf(text, Kw(")")) + 1, IndexOf(text, Kw("RETURNING")) - 1)

C18_ConflictClause ==
  (op \in InsertOps /\ issued # <<>>) =>
    LET spec == IF handed.conflict.def THEN handed.conflict ELSE DefaultOnConflict
        n == Len(handed.row.m)
        t == Len(spec.target)
        c == Len(spec.changes)
        clause == ConflictClauseOf(issued[1].text)
        sets == TokensOf(clause, "asg")
    IN /\ t = 0 => clause = <<Kw("ON CONFLICT DO NOTHING")>>
       /\ (t > 0 /\ spec.hasChanges) =>
            /\ clause[1] = Kw("ON CONFLICT (")
            /\ \A k \in 1..t : clause[2 * k] = Kw(spec.target[k])
            /\ clause[2 * t + 1] = Kw(") DO UPDATE SET")
            /\ Len(sets) = c
            /\ \A i \in 1..c : sets[i].s = spec.changes[i].key /\ sets[i].n = n + i
            /\ Len(clause) = 2 * t + 1 + (IF c = 0 THEN 0 ELSE 2 * c - 1)

\* an upsert of a row of two columns on two targets with two changes
C18_Witness ==
  /\ op = "upsert"
  /\ issued # <<>>
  /\ Len(handed.row.m) = 2
  /\ handed.conflict.target = <<"a", "id">>
  /\ Len(handed.conflict.changes) = 2
  /\ TokensOf(ConflictClauseOf(issued[1].text), "asg")[2].n = 4

(***************************************************************************)
(* C19.  The text of the statement of a find, findOne, count, create,      *)
(* upsert, update or delete does not depend on the values of the mappings  *)
(* (or of the key) it is called with: it is the text of the same call with *)
(* every value replaced by one fixed value; and no token of the text       *)
(* carries a value.                                                        *)
(***************************************************************************)
Erase(m) == [i \in 1..Len(m) |-> Entry(m[i].key, Undefined)]
EraseOpt(o) == IF o.def THEN Some(Erase(o.m)) ELSE o
EraseConflict(c) == [c EXCEPT !.changes = Erase(c.changes)]
EraseKey(x) == IF x.isObj THEN CondArg(Erase(x.m)) ELSE KeyArg(Undefined)

\* the statement of the call opName(a) made with every value erased
ErasedCall(opName, a) ==
  CASE opName = "find" ->
         Postgres_select(tableName, EraseOpt(a.conditions), a.orderBy, a.extra)
    [] opName = "findOne" ->
         Postgres_selectOne(tableName, findOneConditions(EraseKey(a.key)),
                            a.orderBy)
    [] opName = "count" ->
         Postgres_count(tableName, EraseOpt(a.conditions), a.extra)
    [] opName = "create" ->
         LET e == insertEnrich(EraseOpt(a.row), NoConflict, withTimestamps, now)
         IN Postgres_insert(tableName, Some(e.row), "*", e.conflict)
    [] opName = "upsert" ->
         LET e == insertEnrich(EraseOpt(a.row),
                               IF a.conflict.def THEN EraseConflict(a.conflict)
                               ELSE Conflict(<<primaryKey>>, FALSE, <<>>),
                               withTimestamps, now)
         IN Postgres_insert(tableName, Some(e.row), "*", e.conflict)
    [] opName = "update" ->
         Postgres_update(tableName,
                         updateChanges(EraseOpt(a.changes), withTimestamps, now),
                         EraseOpt(a.conditions))
    [] opName = "delete" ->
         Postgres_delete(tableName, EraseOpt(a.conditions))

StaticOps == {"find", "findOne", "count", "create", "upsert", "update", "delete"}

C19_TextIgnoresValues ==
  (op \in StaticOps /\ issued # <<>>) =>
    /\ issued[1].text = ErasedCall(op, args).text
    /\ \A i \in 1..Len(issued[1].text) :
         issued[1].text[i].k \in {"kw", "col", "ph", "asg"}

(***************************************************************************)
(* C20.  getIn(path) returns null for the empty path, and when the         *)
(* attributes or the value at some proper prefix of the path is falsy;     *)
(* otherwise it returns the value at the full path.  The attributes are    *)
(* not modified.                                                           *)
(***************************************************************************)
\* the value that following path from the attributes reaches
RECURSIVE ValueAt(_, _)
ValueAt(attributes, path) ==
  IF path = <<>> THEN AsValue(attributes)
  ELSE Index(ValueAt(attributes, SubSeq(path, 1, Len(path) - 1)),
             path[Len(path)])

C20_GetInNullOnBreak ==
  op = "getIn" =>
    /\ ret.val =
         IF \/ args.path = <<>>
            \/ \E n \in 0..(Len(args.path) - 1) :
                 Falsy(ValueAt(args.attributes, SubSeq(args.path, 1, n)))
         THEN Null
         ELSE ValueAt(args.attributes, args.path)
    /\ inst.attributes = args.attributes

\* a getIn of a path of two keys that reaches a string inside a nested object
C20_Witness ==
  /\ op = "getIn"
  /\ args.path = <<"a", "b">>
  /\ ret.val = Str(1)
  /\ Get(inst.attributes.m, "b") = Null

(***************************************************************************)
(* C21.  setIn(path, value) returns null exactly when the attributes or    *)
(* the value at a proper prefix of the path is falsy, and then changes     *)
(* nothing; otherwise it returns the instance, the value at the path is    *)
(* value, and the value at every path that neither leads to the path nor   *)
(* goes through it is what it was.                                         *)
(***************************************************************************)
Prefix(path, n) == SubSeq(path, 1, n)
IsPrefix(p, q) == Len(p) <= Len(q) /\ Prefix(q, Len(p)) = p

\* the attributes or the value at a proper prefix of the path is falsy
Broken(attributes, path) ==
  \E n \in 0..(Len(path) - 1) : Falsy(ValueAt(attributes, Prefix(path, n)))

C21_SetInWritesOrNull ==
  op = "setIn" =>
    IF args.path # <<>> /\ Broken(args.attributes, args.path)
    THEN /\ outcome.status = "returned"
         /\ ~ret.self /\ ret.val = Null
         /\ inst.attributes = args.attributes
    ELSE /\ outcome.status = "returned"
         /\ ret.self
         /\ args.path = <<>> => inst.attributes = args.attributes
         /\ args.path # <<>> =>
              /\ ValueAt(inst.attributes, args.path) = args.value
              /\ \A q \in KeyPaths :
                   (~IsPrefix(q, args.path) /\ ~IsPrefix(args.path, q)) =>
                     ValueAt(inst.attributes, q) = ValueAt(args.attributes, q)

(***************************************************************************)
(* C22.  On an instance that has attributes, set(k, v) returns the         *)
(* instance, a get(k) that follows returns v, every other top-level        *)
(* attribute has the value it had, and get of a key that is not among the  *)
(* attributes returns undefined.                                           *)
(***************************************************************************)
C22_SetThenGet ==
  /\ (op \in {"set", "set.get"} /\ args.attributes.def) =>
       /\ outcome.status = "returned"
       /\ op = "set" => ret.self
       /\ Get(inst.attributes.m, args.prop) = args.value
       /\ \A k \in KeySet(args.attributes.m) \cup KeySet(inst.attributes.m) :
            k # args.prop =>
              /\ Has(inst.attributes.m, k) = Has(args.attributes.m, k)
              /\ Get(inst.attributes.m, k) = Get(args.attributes.m, k)
       /\ (op = "set.get" /\ args.read = <<args.prop>>) => ret.val = args.value
  /\ (op = "get" /\ args.attributes.def /\ ~Has(args.attributes.m, args.read[1])) =>
       /\ outcome.status = "returned"
       /\ ret.val = Undefined

\* set("a", v).get("a") on an instance that also has an attribute b
C22_Witness ==
  /\ op = "set.get"
  /\ args.prop = "a"
  /\ args.read = <<"a">>
  /\ args.value = Str(2)
  /\ ret.val = Str(2)
  /\ Has(args.attributes.m, "b")
  /\ Get(inst.attributes.m, "b") = Get(args.attributes.m, "b")

(***************************************************************************)
(* C26.  When setIn(path, value) returns the instance, the getIn(path)     *)
(* that follows it returns value: for every path, the empty one included.  *)
(***************************************************************************)
C26_SetInGetInRoundTrip ==
  op = "setIn.getIn" => ret.val = args.value

(***************************************************************************)
(* C27.  getIn of a path that is not empty returns null, not undefined,    *)
(* whenever a key of the path, the last one included, is absent from the   *)
(* object it is looked up in.                                              *)
(***************************************************************************)
\* the n-th key of the path is looked up in an object that does not have it
KeyAbsent(attributes, path, n) ==
  LET parent == ValueAt(attributes, Prefix(path, n - 1))
  IN parent.kind = "obj" /\ ~Has(parent.n, path[n])

C27_GetInNullOnAbsentKey ==
  (op = "getIn" /\ args.path # <<>>
     /\ \E n \in 1..Len(args.path) : KeyAbsent(args.attributes, args.path, n)) =>
    ret.val = Null

(***************************************************************************)
(* C23.  When an upsert is passed the conflict spec object of an earlier   *)
(* upsert, an object the caller made without changes, the changes it       *)
(* hands to the client are its own row as handed to the client, not the    *)
(* row or updated_at of the earlier call.                                  *)
(***************************************************************************)
C23_SpecReuseOwnRow ==
  (op = "upsert" /\ args.reused /\ ~args.created.hasChanges /\ handed.called) =>
    handed.conflict.changes = handed.row.m

(***************************************************************************)
(* C24.  After an upsert the conflict spec object the caller passed has    *)
(* the target and the changes it had before: no changes when it had none,  *)
(* the same keys and values when it had some.                              *)
(***************************************************************************)
C24_SpecNotMutated ==
  (op \in {"upsert", "proto_upsert"} /\ args.conflict.def /\ handed.called) =>
    /\ callerConflict.target = args.conflict.target
    /\ callerConflict.hasChanges = args.conflict.hasChanges
    /\ callerConflict.changes = args.conflict.changes

(***************************************************************************)
(* C25.  After the instance's create() or upsert() resolves with a         *)
(* persisted row, the instance's primary key attribute is that row's       *)
(* primary key, whatever key the store returned (0 and the empty string    *)
(* included), and every other attribute of the instance is as the caller   *)
(* left it.                                                                *)
(***************************************************************************)
C25_PrimaryKeyPropagates ==
  (op \in {"proto_create", "proto_upsert"}
     /\ outcome.status = "resolved" /\ outcome.row.def) =>
    /\ Get(inst.attributes.m, primaryKey) = Get(outcome.row.m, primaryKey)
    /\ \A k \in (KeySet(inst.attributes.m) \cup KeySet(args.attributes.m))
                  \ {primaryKey} :
         /\ Has(inst.attributes.m, k) = Has(args.attributes.m, k)
         /\ Get(inst.attributes.m, k) = Get(args.attributes.m, k)

(***************************************************************************)
(* C28.  find and count called without conditions, or with conditions of   *)
(* no keys, hand the driver a SELECT without a WHERE and with no values.   *)
(***************************************************************************)
C28_EmptyConditionsSelectAll ==
  (op \in {"find", "count"} /\ issued # <<>>
     /\ (~args.conditions.def \/ args.conditions.m = <<>>)) =>
    /\ \A i \in 1..Len(issued[1].text) : issued[1].text[i] # Kw("WHERE")
    /\ issued[1].values = <<>>

(***************************************************************************)
(* C29.  When the caller assigns to an instance (assign, or set of a key   *)
(* other than the primary key) while the instance's create() awaits the    *)
(* store, and create() then resolves with a row of a truthy primary key,   *)
(* the instance's attributes hold the assigned values and the row's        *)
(* primary key.                                                            *)
(***************************************************************************)
C29_NoLostUpdate ==
  (op = "proto_create" /\ args.template.def
     /\ outcome.status = "resolved" /\ outcome.row.def
     /\ ~Falsy(Get(outcome.row.m, primaryKey))) =>
    /\ \A i \in 1..Len(args.template.m) :
         Get(inst.attributes.m, args.template.m[i].key) = args.template.m[i].val
    /\ Get(inst.attributes.m, primaryKey) = Get(outcome.row.m, primaryKey)

\* the caller wrote a over the a the instance was created with, and the row
\* came back with the key 7
C29_Witness ==
  /\ op = "proto_create"
  /\ outcome.status = "resolved"
  /\ args.template.def
  /\ Get(args.template.m, "a") = Str(2)
  /\ Get(args.row.m, "a") = Str(1)
  /\ ~Has(args.row.m, primaryKey)
  /\ Get(inst.attributes.m, "a") = Str(2)
  /\ Get(inst.attributes.m, primaryKey) = Num(7)

(***************************************************************************)
(* C30.  With the timestamp flag set, an upsert whose spec has no changes  *)
(* and whose row has no created_at hands the client changes with           *)
(* created_at = the instant of the call; and its statement, when it has a  *)
(* conflict target, assigns that created_at in its DO UPDATE SET: a        *)
(* conflicting row's created_at becomes the instant of the upsert.         *)
(***************************************************************************)
C30_UpsertOverwritesCreatedAt ==
  (op = "upsert" /\ withTimestamps /\ handed.called
     /\ ~args.conflict.hasChanges /\ ~Has(args.row.m, "created_at")) =>
    /\ Get(handed.conflict.changes, "created_at") = Date(now)
    /\ now \in 1..clock
    /\ (issued # <<>> /\ handed.conflict.target # <<>>) =>
         \E i \in 1..Len(ConflictClauseOf(issued[1].text)) :
           LET tok == ConflictClauseOf(issued[1].text)[i]
           IN /\ tok.k = "asg"
              /\ tok.s = "created_at"
              /\ issued[1].values[tok.n] = Date(now)

\* an upsert without a spec, at a later instant than the first, of a row
\* with a data column and no created_at
C30_Witness ==
  /\ op = "upsert"
  /\ withTimestamps
  /\ issued # <<>>
  /\ now > 1
  /\ ~args.conflict.def
  /\ args.row.def
  /\ Has(args.row.m, "a")
  /\ ~Has(args.row.m, "created_at")
  /\ handed.conflict.target = <<primaryKey>>

=============================================================================
